---- MODULE Spec2Model ----
(***************************************************************************)
(* tiny-dfr: the touch-to-key state machine and the redraw step of the     *)
(* main loop (src/main.rs).  Coordinates are f64 in the source; here they  *)
(* are integers and every comparison of button_hit is carried out exactly, *)
(* scaled by Scale(num) = (num+1)*(num-1) so that button_width and         *)
(* spacing_width are integers.                                             *)
(***************************************************************************)
EXTENDS Integers, Sequences, FiniteSets, TLC

\* ---------------------------------------------------------------- geometry
Width == 2008
Height == 64
NumButtons == 12
Radius == 8

\* ------------------------------------------------------------------ bounds
MaxSlot == 1
MaxNum == 16                       \* most buttons of a layer in the layout check

Slots == 0..MaxSlot
LayerIds == {0, 1}
ButtonIdx == 0..(NumButtons - 1)

\* devices of the two libinput seats: "tb" carries " Touch Bar" in its name,
\* "ts" is any other touch device
Devices == {"tb", "ts"}
TouchBarNamed == {"tb"}
NoDevice == "None"

\* positions <<x, y>> delivered by x_transformed / y_transformed: inside
\* button 0, in the gap after button 0 on either side of the column boundary,
\* at the right edge of the row, and above and below the hit band
DownPositions ==
  { << 100, 32 >>, << 160, 32 >>, << 168, 32 >>,
    << Width, 32 >>, << 600, 1 >>, << 100, 60 >> }

\* a contact can also move onto button 1
MotionPositions == DownPositions \cup { << 200, 32 >> }

\* the events of the other devices never pass the gate, wherever they are:
\* one position, inside button 0, stands for them
OtherPositions == { << 100, 32 >> }
DownPositionsOf(d) == IF d \in TouchBarNamed THEN DownPositions ELSE OtherPositions
MotionPositionsOf(d) == IF d \in TouchBarNamed THEN MotionPositions ELSE OtherPositions

KeyCodes == {"Fn", "A"}
KeyStates == {"Pressed", "Released"}
BrightnessLevels == {0, 1}

KeyNames ==
  << << "F1", "F2", "F3", "F4", "F5", "F6", "F7", "F8", "F9", "F10", "F11", "F12" >>,
     << "BrightnessDown", "BrightnessUp", "MicMute", "Search", "IllumDown", "IllumUp",
        "PreviousSong", "PlayPause", "NextSong", "Mute", "VolumeDown", "VolumeUp" >> >>

VARIABLES
  primary_layer, secondary_layer,  \* config.ui
  active_layer,
  layers,                          \* layers[l][i] = [action, active, changed]
  needs_complete_redraw,
  digitizer,
  touches,                         \* seat slot -> <<layer, btn>>
  current_bl,                      \* backlight.current_bl()
  clips,                           \* rectangles returned by the last draw
  surface,                         \* what the canvas shows in each button's box
  written,                         \* events written to uinput by the last step
  live,                            \* Touch Bar contacts that are down: seat slot ->
                                   \* what became of the down event
  keyboard,                        \* key codes the uinput device holds pressed
  pc                               \* position in the main loop

vars == << primary_layer, secondary_layer, active_layer, layers,
           needs_complete_redraw, digitizer, touches, current_bl, clips,
           written, live, keyboard, surface, pc >>

\* ------------------------------------------------------------ key emitter
emit(ty, code, value) == [type |-> ty, code |-> code, value |-> value]

\* toggle_key without the second emit
toggle_key_unsynced(code, value) == << emit("Key", code, value) >>

toggle_key(code, value) ==
  << emit("Key", code, value), emit("Synchronize", "Report", 0) >>

BoolToInt(b) == IF b THEN 1 ELSE 0

\* a button constructed already active
NewButtonActive(action) == [action |-> action, active |-> TRUE, changed |-> FALSE]

\* Button::new_text / Button::new_svg
NewButton(action) == [action |-> action, active |-> FALSE, changed |-> FALSE]

\* set_active without the `self.active != active` test
set_active_unguarded(button, active) ==
  [button |-> [button EXCEPT !.active = active, !.changed = TRUE],
   out    |-> toggle_key(button.action, BoolToInt(active))]

\* Button::set_active: the button afterwards and the events written
set_active(button, active) ==
  IF button.active # active
    THEN [button |-> [button EXCEPT !.active = active, !.changed = TRUE],
          out    |-> toggle_key(button.action, BoolToInt(active))]
    ELSE [button |-> button, out |-> << >>]

\* ---------------------------------------------------------------- hit test
Scale(num) == (num + 1) * (num - 1)

\* button_width * Scale(num)
ButtonWidthS(num, width) == width * (num - 1)

\* spacing_width * Scale(num)
SpacingWidthS(num, width) ==
  (width * Scale(num) - num * ButtonWidthS(num, width)) \div (num - 1)

\* left_edge * Scale(num)
LeftEdgeS(num, idx, width) ==
  idx * (ButtonWidthS(num, width) + SpacingWidthS(num, width))

\* button_hit without the test against the button's right edge
button_hit_open_right(num, idx, width, height, x, y) ==
  IF x * Scale(num) < LeftEdgeS(num, idx, width)
    THEN FALSE
    ELSE 100 * y > 9 * height /\ 100 * y < 91 * height

\* button_hit without the test against the button's left edge
button_hit_open_left(num, idx, width, height, x, y) ==
  IF x * Scale(num) > LeftEdgeS(num, idx, width) + ButtonWidthS(num, width)
    THEN FALSE
    ELSE 100 * y > 9 * height /\ 100 * y < 91 * height

button_hit(num, idx, width, height, x, y) ==
  IF \/ x * Scale(num) < LeftEdgeS(num, idx, width)
     \/ x * Scale(num) > LeftEdgeS(num, idx, width) + ButtonWidthS(num, width)
    THEN FALSE
    ELSE 100 * y > 9 * height /\ 100 * y < 91 * height

\* (x / (width / len)) as u32
ColumnOf(x, width, num) == (x * num) \div width

\* ------------------------------------------------------------------ render
\* f64 -> u16 casts of FunctionLayer::draw: bot = height * 0.15, top = height * 0.85
BotU16(height) == (15 * height) \div 100
TopU16(height) == (85 * height) \div 100

\* draw's button_width * Scale(len)
DrawButtonWidthS(len, width) == (width * Scale(len)) \div (len + 1)

\* draw's spacing_width with len in place of len - 1 as the divisor
DrawSpacingWidthPerButtonS(len, width) ==
  (width * Scale(len) - len * DrawButtonWidthS(len, width)) \div len

\* draw's spacing_width * Scale(len)
DrawSpacingWidthS(len, width) ==
  (width * Scale(len) - len * DrawButtonWidthS(len, width)) \div (len - 1)

\* draw's left_edge * Scale(len) for button i
DrawLeftEdgeS(len, i, width) ==
  i * (DrawButtonWidthS(len, width) + DrawSpacingWidthS(len, width))

\* the ClipRect pushed for button i (physical buffer coordinates)
ButtonClip(num, i, width, height) ==
  [x1 |-> height - TopU16(height) - Radius,
   y1 |-> DrawLeftEdgeS(num, i, width) \div Scale(num),
   x2 |-> height - BotU16(height) + Radius,
   y2 |-> (DrawLeftEdgeS(num, i, width) \div Scale(num))
            + (DrawButtonWidthS(num, width) \div Scale(num))]

\* the least integer not below a / b
CeilDiv(a, b) == (a + b - 1) \div b

\* The pixels the erase-and-repaint of button i touches, as the half-open box
\* [x1, x2) x [y1, y2) of physical buffer coordinates.  draw fills
\* rectangle(left_edge, bot - radius, button_width, top - bot + 2 radius) and
\* then the rounded box of the same extent, under translate(height, 0) and
\* rotate(90 degrees), which take (x, y) to (height - y, x); a pixel the
\* extent covers in part is modified too.  bot, top and radius are taken in
\* hundredths.
PaintBox(num, i, width, height) ==
  [x1 |-> (15 * height - 100 * Radius) \div 100,
   y1 |-> DrawLeftEdgeS(num, i, width) \div Scale(num),
   x2 |-> CeilDiv(85 * height + 100 * Radius, 100),
   y2 |-> CeilDiv(DrawLeftEdgeS(num, i, width) + DrawButtonWidthS(num, width),
                  Scale(num))]

FullClip(width, height) == [x1 |-> 0, y1 |-> 0, x2 |-> height, y2 |-> width]

RECURSIVE ModifiedRegions(_, _, _, _, _)
\* modified_regions for buttons i..len-1, in iteration order
ModifiedRegions(buttons, complete_redraw, i, width, height) ==
  IF i >= NumButtons THEN << >>
  ELSE IF buttons[i].changed \/ complete_redraw
    THEN << ButtonClip(NumButtons, i, width, height) >>
           \o ModifiedRegions(buttons, complete_redraw, i + 1, width, height)
    ELSE ModifiedRegions(buttons, complete_redraw, i + 1, width, height)

\* ImageSurface::create: nothing painted yet
Blank == [action |-> "None", active |-> FALSE]

\* what the rounded box and the image painted for a button show
Painted(button) == [action |-> button.action, active |-> button.active]

\* draw without the final `if complete_redraw`: always modified_regions
draw_regions_only(buttons, canvas, complete_redraw) ==
  [buttons |-> [i \in ButtonIdx |->
                  IF buttons[i].changed \/ complete_redraw
                    THEN [buttons[i] EXCEPT !.changed = FALSE]
                    ELSE buttons[i]],
   surface |-> [i \in ButtonIdx |->
                  IF buttons[i].changed \/ complete_redraw
                    THEN Painted(buttons[i])
                    ELSE canvas[i]],
   clips   |-> ModifiedRegions(buttons, complete_redraw, 0, Width, Height)]

\* draw without the `continue` for the buttons that have not changed
draw_all_buttons(buttons, canvas, complete_redraw) ==
  [buttons |-> [i \in ButtonIdx |-> [buttons[i] EXCEPT !.changed = FALSE]],
   surface |-> [i \in ButtonIdx |-> Painted(buttons[i])],
   clips   |-> IF complete_redraw
                 THEN << FullClip(Width, Height) >>
                 ELSE ModifiedRegions(buttons, TRUE, 0, Width, Height)]

\* FunctionLayer::draw: the buttons and the canvas afterwards and the
\* rectangles returned
draw(buttons, canvas, complete_redraw) ==
  [buttons |-> [i \in ButtonIdx |->
                  IF buttons[i].changed \/ complete_redraw
                    THEN [buttons[i] EXCEPT !.changed = FALSE]
                    ELSE buttons[i]],
   surface |-> [i \in ButtonIdx |->
                  IF buttons[i].changed \/ complete_redraw
                    THEN Painted(buttons[i])
                    ELSE canvas[i]],
   clips   |-> IF complete_redraw
                 THEN << FullClip(Width, Height) >>
                 ELSE ModifiedRegions(buttons, complete_redraw, 0, Width, Height)]

\* ------------------------------------------------------------------ uinput
RECURSIVE Receive(_, _)
\* the pressed keys of the uinput device once it has received `events`
Receive(pressed, events) ==
  IF events = << >> THEN pressed
  ELSE LET e == Head(events) IN
       Receive(IF e.type # "Key" THEN pressed
               ELSE IF e.value = 0 THEN pressed \ {e.code}
               ELSE pressed \cup {e.code},
               Tail(events))

\* the step writes `events` to the uinput device
Written(events) ==
  /\ written' = events
  /\ keyboard' = Receive(keyboard, events)

\* -------------------------------------------------------------------- init
Init ==
  /\ primary_layer \in LayerIds
  /\ secondary_layer \in LayerIds
  /\ active_layer = primary_layer
  /\ layers = [l \in LayerIds |-> [i \in ButtonIdx |-> NewButton(KeyNames[l + 1][i + 1])]]
  /\ needs_complete_redraw = TRUE
  /\ digitizer = NoDevice
  /\ touches = << >>
  /\ current_bl \in BrightnessLevels
  /\ clips = << >>
  /\ written = << >>
  /\ live = << >>
  /\ keyboard = {}
  /\ surface = [i \in ButtonIdx |-> Blank]
  /\ pc = "redraw"

\* ---------------------------------------------------------------- the loop
\* the redraw condition without the test of the changed flags
NeedsDrawCompleteOnly == needs_complete_redraw

\* top of the loop: the conditional redraw
NeedsDraw ==
  needs_complete_redraw \/ \E i \in ButtonIdx : layers[active_layer][i].changed

LoopTop ==
  /\ pc = "redraw"
  /\ IF NeedsDraw
       THEN LET d == draw(layers[active_layer], surface, needs_complete_redraw) IN
            /\ layers' = [layers EXCEPT ![active_layer] = d.buttons]
            /\ surface' = d.surface
            /\ clips' = d.clips
            /\ needs_complete_redraw' = FALSE
       ELSE /\ clips' = << >>
            /\ UNCHANGED << layers, surface, needs_complete_redraw >>
  /\ Written(<< >>)
  /\ pc' = "poll"
  /\ UNCHANGED << primary_layer, secondary_layer, active_layer, digitizer,
                  touches, current_bl, live >>

\* poll returns (input ready or timeout); dispatch makes the events available
Poll ==
  /\ pc = "poll"
  /\ pc' = "events"
  /\ Written(<< >>)
  /\ clips' = << >>
  /\ UNCHANGED << surface, primary_layer, secondary_layer, active_layer, layers,
                  needs_complete_redraw, digitizer, touches, current_bl, live >>

\* the event iterator is exhausted; backlight.update_backlight()
EndDrain ==
  /\ pc = "events"
  /\ pc' = "redraw"
  /\ Written(<< >>)
  /\ current_bl' \in BrightnessLevels
  /\ UNCHANGED << surface, primary_layer, secondary_layer, active_layer, layers,
                  needs_complete_redraw, digitizer, touches, clips, live >>

\* ------------------------------------------------------------------ events
\* libinput announces a device before it delivers any event of it, and the
\* code keeps the announced Touch Bar device in `digitizer`.
Announced(d) == d \notin TouchBarNamed \/ digitizer = d

\* A seat slot names one contact from its down to its up.  The Touch Bar has
\* a seat of its own (seat-touchbar); the slots of the other seat's devices
\* are numbered independently, and their events are not tracked in `live`.
CanGoDown(d, slot) == d \in TouchBarNamed => slot \notin DOMAIN live
IsDown(d, slot) == d \in TouchBarNamed => slot \in DOMAIN live

\* Event::Device(DeviceEvent::Added(evt))
DeviceAdded(d) ==
  /\ pc = "events"
  /\ ~(d \in TouchBarNamed /\ Announced(d))
  /\ digitizer' = IF d \in TouchBarNamed THEN d ELSE digitizer
  /\ Written(<< >>)
  /\ UNCHANGED << surface, primary_layer, secondary_layer, active_layer, layers,
                  needs_complete_redraw, touches, current_bl, clips,
                  live, pc >>

\* the press/release arms of the match exchanged
NewLayerSwapped(state) ==
  IF state = "Pressed" THEN primary_layer ELSE secondary_layer

\* the layer a Fn key state selects
NewLayer(state) ==
  IF state = "Pressed" THEN secondary_layer ELSE primary_layer

\* a layer switch that also forgets the contacts bound so far
KeyboardKeyInvalidating(key, state) ==
  /\ pc = "events"
  /\ IF key = "Fn" /\ active_layer # NewLayer(state)
       THEN /\ active_layer' = NewLayer(state)
            /\ needs_complete_redraw' = TRUE
            /\ touches' = << >>
       ELSE UNCHANGED << active_layer, needs_complete_redraw, touches >>
  /\ Written(<< >>)
  /\ UNCHANGED << surface, primary_layer, secondary_layer, layers, digitizer,
                  current_bl, clips, live, pc >>

\* Event::Keyboard(KeyboardEvent::Key(key))
KeyboardKey(key, state) ==
  /\ pc = "events"
  /\ IF key = "Fn" /\ active_layer # NewLayer(state)
       THEN /\ active_layer' = NewLayer(state)
            /\ needs_complete_redraw' = TRUE
       ELSE UNCHANGED << active_layer, needs_complete_redraw >>
  /\ Written(<< >>)
  /\ UNCHANGED << surface, primary_layer, secondary_layer, layers, digitizer, touches,
                  current_bl, clips, live, pc >>

\* the gate with && in place of ||
GatedBoth(d, dig, bl) == d # dig /\ bl = 0

\* Some(te.device()) != digitizer || backlight.current_bl() == 0
Gated(d, dig, bl) == d # dig \/ bl = 0

\* an insert that is dropped when another contact's entry holds the binding
InsertExclusive(map, slot, binding) ==
  IF \E t \in (DOMAIN map) \ {slot} : map[t] = binding
    THEN map
    ELSE [s \in (DOMAIN map) \cup {slot} |-> IF s = slot THEN binding ELSE map[s]]

\* touches.insert(slot, (layer, btn))
Insert(map, slot, binding) ==
  [s \in (DOMAIN map) \cup {slot} |-> IF s = slot THEN binding ELSE map[s]]

\* the effect of layers[layer].buttons[btn].set_active(&mut uinput, v)
ApplySetActive(layer, btn, v) ==
  LET r == set_active(layers[layer][btn], v) IN
  /\ Written(r.out)
  /\ layers' = [layers EXCEPT ![layer][btn] = r.button]

\* the contacts down once `slot` of device d has gone down
GoDown(d, slot, outcome) ==
  IF d \in TouchBarNamed THEN Insert(live, slot, outcome) ELSE live

\* what becomes of a down event at (x, y)
DownOutcome(d, x, y) ==
  IF Gated(d, digitizer, current_bl) THEN "gated"
  ELSE IF button_hit(NumButtons, ColumnOf(x, Width, NumButtons),
                     Width, Height, x, y) THEN "hit"
  ELSE "miss"

\* the binding recorded with the configured primary layer
DownBindingPrimary(x) == << primary_layer, ColumnOf(x, Width, NumButtons) >>

\* (active_layer, btn): the binding a confirmed down records
DownBinding(x) == << active_layer, ColumnOf(x, Width, NumButtons) >>

\* TouchEvent::Down(dn)
TouchDown(d, slot, x, y) ==
  /\ pc = "events"
  /\ Announced(d)
  /\ CanGoDown(d, slot)
  /\ live' = GoDown(d, slot, DownOutcome(d, x, y))
  /\ IF Gated(d, digitizer, current_bl)
       THEN /\ Written(<< >>)
            /\ UNCHANGED << layers, touches, pc >>
       ELSE LET btn == ColumnOf(x, Width, NumButtons) IN
            IF button_hit(NumButtons, btn, Width, Height, x, y)
              THEN /\ touches' = Insert(touches, slot, DownBinding(x))
                   /\ IF btn \in ButtonIdx
                        THEN /\ ApplySetActive(active_layer, btn, TRUE)
                             /\ pc' = pc
                        ELSE \* index out of bounds: the process panics
                             /\ pc' = "panicked"
                             /\ Written(<< >>)
                             /\ UNCHANGED layers
              ELSE /\ Written(<< >>)
                   /\ UNCHANGED << layers, touches, pc >>
  /\ UNCHANGED << surface, primary_layer, secondary_layer, active_layer,
                  needs_complete_redraw, digitizer, current_bl,
                  clips >>

\* the motion arm testing the column under the new position
MotionBindingRecomputed(slot, x) ==
  IF ColumnOf(x, Width, NumButtons) \in ButtonIdx
    THEN << touches[slot][1], ColumnOf(x, Width, NumButtons) >>
    ELSE touches[slot]

\* the (layer, btn) the motion arm tests: the one recorded for the contact
MotionBinding(slot, x) == touches[slot]

\* TouchEvent::Motion(mtn)
TouchMotion(d, slot, x, y) ==
  /\ pc = "events"
  /\ Announced(d)
  /\ IsDown(d, slot)
  /\ IF Gated(d, digitizer, current_bl) \/ slot \notin DOMAIN touches
       THEN /\ Written(<< >>)
            /\ UNCHANGED layers
       ELSE LET layer == MotionBinding(slot, x)[1]
                btn == MotionBinding(slot, x)[2] IN
            ApplySetActive(layer, btn,
                           button_hit(NumButtons, btn, Width, Height, x, y))
  /\ UNCHANGED << surface, primary_layer, secondary_layer, active_layer,
                  needs_complete_redraw, digitizer, touches, current_bl, clips, live, pc >>

\* the contacts left when `slot` of device d is lifted
Lift(d, slot) ==
  IF d \in TouchBarNamed
    THEN [s \in (DOMAIN live) \ {slot} |-> live[s]]
    ELSE live

\* TouchEvent::Up(up)
TouchUp(d, slot) ==
  /\ pc = "events"
  /\ Announced(d)
  /\ IsDown(d, slot)
  /\ live' = Lift(d, slot)
  /\ IF Gated(d, digitizer, current_bl) \/ slot \notin DOMAIN touches
       THEN /\ Written(<< >>)
            /\ UNCHANGED layers
       ELSE ApplySetActive(touches[slot][1], touches[slot][2], FALSE)
  /\ UNCHANGED << surface, primary_layer, secondary_layer, active_layer,
                  needs_complete_redraw, digitizer, touches, current_bl, clips, pc >>

Next ==
  \/ LoopTop
  \/ Poll
  \/ EndDrain
  \/ \E d \in Devices : DeviceAdded(d)
  \/ \E key \in KeyCodes, state \in KeyStates : KeyboardKey(key, state)
  \/ \E d \in Devices, slot \in Slots : \E p \in DownPositionsOf(d) :
       TouchDown(d, slot, p[1], p[2])
  \/ \E d \in Devices, slot \in Slots : \E p \in MotionPositionsOf(d) :
       TouchMotion(d, slot, p[1], p[2])
  \/ \E d \in Devices, slot \in Slots : TouchUp(d, slot)

Spec == Init /\ [][Next]_vars

\* The loop never blocks for good: poll returns on input or after TIMEOUT_MS,
\* and the event iterator of one dispatch is finite.  Every Touch Bar contact
\* that is down is lifted in the end and its up event delivered.
LiveSpec ==
  /\ Spec
  /\ WF_vars(LoopTop) /\ WF_vars(Poll) /\ WF_vars(EndDrain)
  /\ \A slot \in Slots : SF_vars(TouchUp("tb", slot))

\* ================================================================== claims
\* the key events (type Key) among the events of a write sequence
KeyEvents(seq) == SelectSeq(seq, LAMBDA e : e.type = "Key")

AllButtons == LayerIds \X ButtonIdx

\* C1: set_active(v) on a button whose active flag is v changes nothing and
\* emits nothing; otherwise it sets active to v and changed to true and emits
\* exactly one key event, of the button's action code and of value v; calling
\* it a second time with the same v emits nothing more.
C1_SetActiveEdge ==
  \A lb \in AllButtons, v \in BOOLEAN :
    LET b  == layers[lb[1]][lb[2]]
        r  == set_active(b, v)
        r2 == set_active(r.button, v)
    IN /\ (v = b.active) => (r.button = b /\ r.out = << >>)
       /\ (v # b.active) =>
            /\ r.button = [action |-> b.action, active |-> v, changed |-> TRUE]
            /\ KeyEvents(r.out) = << emit("Key", b.action, BoolToInt(v)) >>
       /\ Len(KeyEvents(r.out \o r2.out)) = (IF v # b.active THEN 1 ELSE 0)
       /\ r2.button = r.button

\* a step has pressed a button: it is active, marked changed, and its key-down
\* is what the step wrote
C1_Witness ==
  \E lb \in AllButtons :
    LET b == layers[lb[1]][lb[2]] IN
    /\ b.active /\ b.changed
    /\ KeyEvents(written) = << emit("Key", b.action, 1) >>

\* the active flag of every button
ActiveFlags == [lb \in AllButtons |-> layers[lb[1]][lb[2]].active]

\* a step that changes no button's active flag and writes no key event
NoKeyEffect == ActiveFlags' = ActiveFlags /\ KeyEvents(written') = << >>

\* the step is the down / motion / up event of the Touch Bar contact in slot s
TbDown(s, p) ==
  /\ s \notin DOMAIN live /\ s \in DOMAIN live'
  /\ TouchDown("tb", s, p[1], p[2])
TbMotion(s, p) ==
  /\ s \in DOMAIN live /\ live' = live /\ touches' = touches /\ pc' = pc
  /\ TouchMotion("tb", s, p[1], p[2])
TbUp(s) ==
  /\ s \in DOMAIN live /\ s \notin DOMAIN live'
  /\ TouchUp("tb", s)

\* C2: a contact whose down-event hit test fails produces no tracking-map
\* entry, and every later motion or up event of that contact changes no
\* active flag and emits no key event, whatever contacts used its id before.
C2_MissedContactIgnored ==
  [][\A s \in Slots :
       /\ \A p \in DownPositions :
            (TbDown(s, p) /\ DownOutcome("tb", p[1], p[2]) = "miss")
              => s \notin DOMAIN touches'
       /\ (s \in DOMAIN live /\ live[s] = "miss")
            => /\ \A p \in MotionPositions : TbMotion(s, p) => NoKeyEffect
               /\ TbUp(s) => NoKeyEffect
    ]_vars

\* C3: the up event of a tracked contact calls set_active(false) on the bound
\* button and removes the contact's entry, so the map holds an entry for a
\* contact id only between that contact's down event and its up event.
C3_EntryOnlyWhileDown ==
  [][/\ \A s \in Slots :
          (TbUp(s) /\ ~Gated("tb", digitizer, current_bl) /\ s \in DOMAIN touches)
            => /\ ~layers'[touches[s][1]][touches[s][2]].active
               /\ s \notin DOMAIN touches'
     /\ DOMAIN touches' \subseteq DOMAIN live'
    ]_vars

\* C4: the binding recorded at a contact's hit-confirmed down event is the
\* layer active at that moment and the column under the contact, and it stays
\* in the map unchanged for as long as the contact is down.
C4_BindingStable ==
  [][\A s \in Slots :
       /\ \A p \in DownPositions :
            (TbDown(s, p) /\ DownOutcome("tb", p[1], p[2]) = "hit")
              => /\ s \in DOMAIN touches'
                 /\ touches'[s] = << active_layer, ColumnOf(p[1], Width, NumButtons) >>
       /\ (s \in DOMAIN live /\ live[s] = "hit" /\ s \in DOMAIN live')
            => /\ s \in DOMAIN touches /\ s \in DOMAIN touches'
               /\ touches'[s] = touches[s]
    ]_vars

\* a contact is still down and bound to the layer it hit although another
\* layer is active now, it has slid off its button, and a second contact is
\* down as well
C4_Witness ==
  \E s \in DOMAIN live :
    /\ live[s] = "hit"
    /\ s \in DOMAIN touches
    /\ touches[s][1] # active_layer
    /\ ~layers[touches[s][1]][touches[s][2]].active
    /\ \E t \in DOMAIN live : t # s /\ live[t] = "hit"

\* the step is a keyboard key event
KeyStep(key, state) ==
  /\ pc = "events" /\ pc' = "events" /\ live' = live
  /\ KeyboardKey(key, state)

\* the button a tracked slot is bound to
Bound(s) == layers[touches[s][1]][touches[s][2]]

\* the key events a set_active(v) on button b writes
EdgeEvents(b, v) ==
  IF b.active # v THEN << emit("Key", b.action, BoolToInt(v)) >> ELSE << >>

C6_FullRedraw ==
  /\ (needs_complete_redraw = TRUE /\ pc = "redraw")
  /\ [][/\ \A state \in KeyStates :
             KeyStep("Fn", state)
               => IF active_layer' # active_layer
                    THEN needs_complete_redraw'
                    ELSE /\ needs_complete_redraw' = needs_complete_redraw
                         /\ layers' = layers
        /\ (primary_layer = secondary_layer)
             => (active_layer' = active_layer
                   /\ (pc = "events" /\ pc' = "events"
                         => needs_complete_redraw' = needs_complete_redraw))
        /\ (needs_complete_redraw /\ pc # "redraw") => needs_complete_redraw'
        /\ (needs_complete_redraw /\ pc = "redraw")
             => /\ clips' = << [x1 |-> 0, y1 |-> 0, x2 |-> Height, y2 |-> Width] >>
                /\ ~needs_complete_redraw'
                /\ \A i \in ButtonIdx : ~layers'[active_layer][i].changed
        /\ (~needs_complete_redraw /\ pc = "redraw")
             => \A k \in 1..Len(clips') :
                  clips'[k] # [x1 |-> 0, y1 |-> 0, x2 |-> Height, y2 |-> Width]
       ]_vars

\* the redraw after a layer switch has just returned the whole canvas
C6_Witness ==
  /\ pc = "poll"
  /\ active_layer # primary_layer
  /\ clips = << [x1 |-> 0, y1 |-> 0, x2 |-> Height, y2 |-> Width] >>
  /\ touches # << >>

\* C7: active_layer starts as primary_layer; a Fn press leaves it equal to
\* secondary_layer and a Fn release equal to primary_layer; every other step
\* (other keys, touch events, the loop) leaves it unchanged.
C7_ActiveLayer ==
  /\ active_layer = primary_layer
  /\ [][/\ active_layer' \in {primary_layer, secondary_layer}
        /\ KeyStep("Fn", "Pressed") => active_layer' = secondary_layer
        /\ KeyStep("Fn", "Released") => active_layer' = primary_layer
        /\ ~(\E state \in KeyStates : KeyStep("Fn", state))
             => active_layer' = active_layer
        /\ primary_layer' = primary_layer /\ secondary_layer' = secondary_layer
       ]_vars

\* Fn is held: the secondary layer, different from the primary, is active
\* while a contact is down
C7_Witness ==
  /\ primary_layer # secondary_layer
  /\ active_layer = secondary_layer
  /\ live # << >>

\* C8: a touch down, motion or up event that arrives while the brightness is
\* 0, or from a device that is not the recognized digitizer (none recognized
\* yet included), leaves the tracking map, all buttons, active_layer and the
\* redraw flag unchanged and writes nothing.
C8_GatedTouchIgnored ==
  [][\A d \in Devices, s \in Slots :
       (pc = "events" /\ pc' = "events"
          /\ (current_bl = 0 \/ digitizer = NoDevice \/ d # digitizer))
         => (( \/ TouchUp(d, s)
               \/ \E p \in MotionPositionsOf(d) : TouchMotion(d, s, p[1], p[2])
               \/ \E p \in DownPositionsOf(d) : TouchDown(d, s, p[1], p[2]) )
              => /\ touches' = touches /\ layers' = layers
                 /\ active_layer' = active_layer
                 /\ needs_complete_redraw' = needs_complete_redraw
                 /\ written' = << >>)
    ]_vars

\* the backlight is off, and a Touch Bar contact that went down meanwhile was
\* ignored although its position is inside button 0; an earlier contact's
\* button is still active
C8_Witness ==
  /\ current_bl = 0
  /\ digitizer = "tb"
  /\ \E s \in DOMAIN live : live[s] = "gated" /\ s \notin DOMAIN touches
  /\ \E lb \in AllButtons : layers[lb[1]][lb[2]].active

\* Button i's horizontal extent [i*(bw+gap), i*(bw+gap)+bw] with bw = W/(N+1)
\* and gap = (W-N*bw)/(N-1), in units of 1/((N+1)(N-1)): bw+gap is W*N and bw
\* is W*(N-1) of them.
InExtent(i, x) ==
  LET u == (NumButtons + 1) * (NumButtons - 1) IN
  /\ x * u >= i * Width * NumButtons
  /\ x * u <= i * Width * NumButtons + Width * (NumButtons - 1)

\* strictly between 9% and 91% of the row thickness
InBand(y) == 100 * y > 9 * Height /\ 100 * y < 91 * Height

\* no button other than button b of layer l differs after the step
OnlyButtonChanged(l, b) == layers' = [layers EXCEPT ![l][b] = layers'[l][b]]

\* what a confirmed down on button i of the active layer does in slot s
PressEffect(s, i) ==
  /\ touches' = Insert(touches, s, << active_layer, i >>)
  /\ layers'[active_layer][i].active
  /\ OnlyButtonChanged(active_layer, i)
  /\ KeyEvents(written') = EdgeEvents(layers[active_layer][i], TRUE)

\* what a rejected down does: nothing
NoPressEffect ==
  touches' = touches /\ layers' = layers /\ written' = << >>

\* C9 as stated: a down event is confirmed on button i of the active layer
\* exactly when x is inside button i's extent and y strictly inside the band,
\* and does nothing otherwise; the column guess is i all over button i.
C9_DownHitsIffInside ==
  [][\A s \in Slots, p \in DownPositions :
       (TbDown(s, p) /\ current_bl # 0)
         => LET inside == { i \in ButtonIdx : InExtent(i, p[1]) /\ InBand(p[2]) } IN
            IF inside # {}
              THEN \E i \in inside :
                     PressEffect(s, i) /\ ColumnOf(p[1], Width, NumButtons) = i
              ELSE NoPressEffect
    ]_vars

\* the column guess over the whole row: it is i all over button i, except at
\* x = W, the right edge of the last button, where it is N and the hit test
\* against column N fails
ColumnGuess ==
  /\ \A x \in 0..Width, i \in ButtonIdx :
       InExtent(i, x)
         => \/ ColumnOf(x, Width, NumButtons) = i
            \/ x = Width /\ i = NumButtons - 1
                 /\ ColumnOf(x, Width, NumButtons) = NumButtons
  /\ \A y \in 0..Height :
       ~button_hit(NumButtons, NumButtons, Width, Height, Width, y)

\* C9 amended: a down event is confirmed on button i of the active layer
\* exactly when x is inside button i's extent, x < W, and y is strictly inside
\* the band; it does nothing otherwise, in particular at x = W.
C9_DownHitsIffInsideBelowW ==
  [][/\ ColumnGuess
     /\ \A s \in Slots, p \in DownPositions :
          (TbDown(s, p) /\ current_bl # 0)
            => LET inside == { i \in ButtonIdx :
                                 InExtent(i, p[1]) /\ p[1] < Width /\ InBand(p[2]) } IN
               IF inside # {}
                 THEN \E i \in inside :
                        PressEffect(s, i) /\ ColumnOf(p[1], Width, NumButtons) = i
                 ELSE NoPressEffect
    ]_vars

\* one contact's down was confirmed on button 0 of the active layer, which is
\* active, and another contact's down was rejected and left no entry
C9_Witness ==
  \E s \in DOMAIN live, t \in DOMAIN live :
    /\ live[s] = "hit" /\ s \in DOMAIN touches
    /\ touches[s] = << active_layer, 0 >> /\ Bound(s).active
    /\ live[t] = "miss" /\ t \notin DOMAIN touches

\* C10: a motion event of a tracked contact sets the active flag of the
\* button bound to the contact to the hit test of the new position against
\* that button, writes one key event if the flag changed and none otherwise,
\* and changes no other button.
C10_MotionDrivesBoundButton ==
  [][\A s \in Slots, p \in MotionPositions :
       (s \in DOMAIN touches /\ current_bl # 0 /\ TbMotion(s, p))
         => LET l == touches[s][1]
                b == touches[s][2]
                hit == InExtent(b, p[1]) /\ InBand(p[2])
            IN /\ layers'[l][b].active = hit
               /\ KeyEvents(written') = EdgeEvents(layers[l][b], hit)
               /\ OnlyButtonChanged(l, b)
    ]_vars

\* the only contact there has ever been is down, bound to button 0, whose
\* key-up the last step wrote: the contact has slid off it
C10_Witness ==
  \E s \in Slots :
    /\ DOMAIN live = {s} /\ live[s] = "hit"
    /\ DOMAIN touches = {s}
    /\ ~Bound(s).active
    /\ KeyEvents(written) = << emit("Key", Bound(s).action, 0) >>

\* the synchronization report toggle_key writes after the key event
SynReport == emit("Synchronize", "Report", 0)

\* button lb made a set_active transition in the step: its active flag differs
\* afterwards, it is marked changed, and no other button differs
Transition(lb) ==
  /\ layers'[lb[1]][lb[2]].active # layers[lb[1]][lb[2]].active
  /\ layers'[lb[1]][lb[2]].changed
  /\ OnlyButtonChanged(lb[1], lb[2])

\* C11: every key event written is followed at once by a synchronization
\* report, both written by the event-handling step in which a button made its
\* set_active transition; a step in which no button made one writes no key
\* event, and a step in which one did writes that button's key event.
C11_KeyThenSync ==
  [][IF written' = << >>
       THEN layers' = layers \/ ActiveFlags' = ActiveFlags
       ELSE /\ pc = "events"
            /\ \A k \in 1..Len(written') :
                 written'[k].type = "Key"
                   => k < Len(written') /\ written'[k + 1] = SynReport
            /\ \E lb \in AllButtons :
                 /\ Transition(lb)
                 /\ written' = << emit("Key", layers[lb[1]][lb[2]].action,
                                       BoolToInt(layers'[lb[1]][lb[2]].active)),
                                  SynReport >>
    ]_vars

\* the last step wrote the key-up of a button of layer 1 and the report after
\* it, while the loop is draining events
C11_Witness ==
  /\ pc = "events"
  /\ Len(written) = 2
  /\ written[1] = emit("Key", layers[1][0].action, 0)
  /\ written[2] = SynReport
  /\ ~layers[1][0].active /\ layers[1][0].changed

\* the action codes of the buttons whose active flag is set
ActiveCodes == { layers[lb[1]][lb[2]].action : lb \in { c \in AllButtons : ActiveFlags[c] } }

\* no two buttons carry the same action code
UniqueAction ==
  Cardinality({ layers[lb[1]][lb[2]].action : lb \in AllButtons }) = Cardinality(AllButtons)

\* C12: the key events of every key code alternate down, up, down, ...,
\* starting with down: a key-down is written only for a code the virtual
\* keyboard does not hold pressed and a key-up only for one it does; and the
\* keys it holds pressed are at every point the action codes of the active
\* buttons, each code being carried by one button only.
C12_KeyAlternates ==
  /\ (keyboard = {} /\ ActiveCodes = {} /\ UniqueAction)
  /\ [][/\ \A k \in 1..Len(written') :
             written'[k].type = "Key"
               => /\ written'[k].value \in {0, 1}
                  /\ written'[k].value = 1 <=> written'[k].code \notin keyboard
        /\ keyboard' = ActiveCodes'
        /\ UniqueAction'
       ]_vars

\* two keys are held at once, one of each layer, and the last step wrote the
\* key-down of the second
C12_Witness ==
  /\ keyboard = { layers[0][0].action, layers[1][0].action }
  /\ Len(written) = 2 /\ written[1].type = "Key" /\ written[1].value = 1
  /\ layers[0][0].active /\ layers[1][0].active

\* C13 as stated: no two contacts that are down are bound to the same button
\* of the same layer.
C13_OneContactPerButton ==
  \A s \in DOMAIN live, t \in DOMAIN live :
    (live[s] = "hit" /\ live[t] = "hit" /\ s \in DOMAIN touches
       /\ t \in DOMAIN touches /\ touches[s] = touches[t])
      => s = t

\* C13 amended: the map holds one (layer, button) per contact id; a confirmed
\* down records the contact's own entry and leaves every other entry as it
\* is, also when another contact's entry references the same button, in which
\* case the button is already active and no key event is written.
C13_ContactsMayShareButton ==
  [][/\ DOMAIN touches' \subseteq Slots
     /\ \A s \in DOMAIN touches' : touches'[s] \in AllButtons
     /\ \A s \in Slots, p \in DownPositions :
          (TbDown(s, p) /\ DownOutcome("tb", p[1], p[2]) = "hit")
            => LET b == << active_layer, ColumnOf(p[1], Width, NumButtons) >> IN
               /\ DOMAIN touches' = (DOMAIN touches) \cup {s}
               /\ touches'[s] = b
               /\ \A t \in (DOMAIN touches) \ {s} : touches'[t] = touches[t]
               /\ (\E t \in (DOMAIN live) \ {s} :
                     live[t] = "hit" /\ touches[t] = b /\ layers[b[1]][b[2]].active)
                    => written' = << >> /\ layers' = layers
    ]_vars

\* two contacts are down, both bound to the same active button, and the down
\* of the second wrote nothing
C13_Witness ==
  /\ DOMAIN live = Slots
  /\ \A s \in Slots : live[s] = "hit" /\ s \in DOMAIN touches
  /\ \A s \in Slots, t \in Slots : touches[s] = touches[t]
  /\ Bound(0).active
  /\ written = << >>

\* the buttons of `buttons` whose changed flag is set
Changed(buttons) == { i \in ButtonIdx : buttons[i].changed }

\* d is what an incremental redraw of `buttons` on `canvas` must give: the
\* changed buttons repainted and their flag cleared, the others and their
\* part of the canvas as they were, one rectangle per changed button
IncrementalResult(buttons, canvas, d) ==
  /\ \A i \in Changed(buttons) :
       /\ d.buttons[i] = [buttons[i] EXCEPT !.changed = FALSE]
       /\ d.surface[i] = Painted(buttons[i])
  /\ \A i \in ButtonIdx \ Changed(buttons) :
       /\ d.buttons[i] = buttons[i]
       /\ d.surface[i] = canvas[i]
  /\ Len(d.clips) = Cardinality(Changed(buttons))
  /\ { d.clips[k] : k \in 1..Len(d.clips) }
       = { ButtonClip(NumButtons, i, Width, Height) : i \in Changed(buttons) }

\* buttons whose changed flag the check of draw sets at will
SampleButtons == {0, 1, NumButtons - 1}

\* C14: an incremental redraw repaints exactly the buttons of the drawn layer
\* whose changed flag is set and clears the flag, leaves every other button
\* and its part of the canvas untouched, and returns one rectangle per
\* repainted button; no redraw, incremental or complete, modifies an active
\* flag.  The redraw step is checked as it happens, and draw itself on the
\* drawn layer with every choice of changed flags over SampleButtons.
C14_IncrementalRedraw ==
  [][pc = "redraw"
       => /\ ActiveFlags' = ActiveFlags
          /\ layers'[1 - active_layer] = layers[1 - active_layer]
          /\ (~needs_complete_redraw /\ NeedsDraw)
               => IncrementalResult(layers[active_layer], surface,
                                    [buttons |-> layers'[active_layer],
                                     surface |-> surface', clips |-> clips'])
          /\ \A ch \in SUBSET SampleButtons :
               LET buttons == [i \in ButtonIdx |->
                                 [layers[active_layer][i] EXCEPT !.changed = (i \in ch)]]
               IN IncrementalResult(buttons, surface, draw(buttons, surface, FALSE))
    ]_vars

\* an incremental redraw has just repainted button 0, now shown active, and
\* returned its rectangle alone; the rest of the canvas still shows the
\* buttons as the complete redraw before it painted them
C14_Witness ==
  /\ pc = "poll"
  /\ clips = << ButtonClip(NumButtons, 0, Width, Height) >>
  /\ surface[0] = [action |-> layers[active_layer][0].action, active |-> TRUE]
  /\ \A i \in ButtonIdx \ {0} : surface[i] = Painted(layers[active_layer][i])
  /\ \A i \in ButtonIdx : ~layers[active_layer][i].changed

\* layers and drawable widths the layout arithmetic is checked for
LayoutNums == 2..MaxNum
LayoutWidths == {Height, 1000, Width, 2170}

\* the layout of num buttons over `width`, in units of 1/Scale(num)
LayoutOf(num, width) ==
  LET bw  == ButtonWidthS(num, width)
      gap == SpacingWidthS(num, width)
  IN /\ bw * (num + 1) = width * Scale(num)
     /\ gap * (num - 1) = width * Scale(num) - num * bw
     /\ num * bw + (num - 1) * gap = width * Scale(num)
     /\ LeftEdgeS(num, num - 1, width) + bw = width * Scale(num)
     /\ \A i \in 0..(num - 1) :
          /\ LeftEdgeS(num, i, width) = i * (bw + gap)
          /\ i < num - 1
               => LeftEdgeS(num, i, width) + bw <= LeftEdgeS(num, i + 1, width)
          /\ DrawLeftEdgeS(num, i, width) = LeftEdgeS(num, i, width)
          /\ DrawButtonWidthS(num, width) = bw

\* the layout arithmetic over LayoutNums and LayoutWidths
LayoutGrid == \A num \in LayoutNums, width \in LayoutWidths : LayoutOf(num, width)

\* at the pixels on either side of button i's edges the hit test agrees with
\* the extent draw paints
SameExtents ==
  \A i \in ButtonIdx :
    LET left  == LeftEdgeS(NumButtons, i, Width)
        right == left + ButtonWidthS(NumButtons, Width)
    IN \A x \in { left \div Scale(NumButtons), (left \div Scale(NumButtons)) + 1,
                  right \div Scale(NumButtons), (right \div Scale(NumButtons)) + 1 } :
         button_hit(NumButtons, i, Width, Height, x, Height \div 2)
           <=> /\ x * Scale(NumButtons) >= DrawLeftEdgeS(NumButtons, i, Width)
               /\ x * Scale(NumButtons)
                    <= DrawLeftEdgeS(NumButtons, i, Width)
                         + DrawButtonWidthS(NumButtons, Width)

\* C15: with button width W/(N+1) and gap (W - N*W/(N+1))/(N-1), N widths
\* and N-1 gaps sum to W, the last button's right edge is W, button i's left
\* edge is i*(width+gap), no button's right edge exceeds the next button's
\* left edge, and draw and button_hit compute the same left edge and width
\* for every button index: a rectangle returned for a repainted button starts
\* at the pixel holding the left edge the hit test uses.
C15_Layout ==
  /\ LayoutGrid
  /\ SameExtents
  /\ \A k \in 1..Len(clips) :
       \/ clips[k] = FullClip(Width, Height)
       \/ \E i \in ButtonIdx :
            /\ clips[k].y1 = LeftEdgeS(NumButtons, i, Width) \div Scale(NumButtons)
            /\ clips[k].y2 - clips[k].y1
                 = ButtonWidthS(NumButtons, Width) \div Scale(NumButtons)

\* a contact is bound to button 0 of the active layer, found by the hit test,
\* and the redraw has just repainted that button in the box draw computes
C15_Witness ==
  /\ pc = "poll"
  /\ clips = << ButtonClip(NumButtons, 0, Width, Height) >>
  /\ \E s \in DOMAIN live : s \in DOMAIN touches /\ touches[s] = << active_layer, 0 >>
  /\ surface[0].active

\* rectangle `clip` holds every pixel of `box`
Covers(clip, box) ==
  /\ clip.x1 <= box.x1 /\ box.x2 <= clip.x2
  /\ clip.y1 <= box.y1 /\ box.y2 <= clip.y2

\* C16: in an incremental redraw every button whose picture on the canvas
\* has changed is reported by a rectangle that holds every pixel its erase
\* and repaint touched, so that the copy of the reported rectangles leaves
\* the display equal to the canvas.
C16_ClipCoversPaint ==
  [][(pc = "redraw" /\ ~needs_complete_redraw)
       => \A i \in ButtonIdx :
            surface'[i] # surface[i]
              => \E k \in 1..Len(clips') :
                   Covers(clips'[k], PaintBox(NumButtons, i, Width, Height))
    ]_vars

\* the action codes of all buttons
AllCodes == { KeyNames[lb[1] + 1][lb[2] + 1] : lb \in AllButtons }

\* C17: when every contact that goes down is lifted in the end, a key the
\* virtual keyboard holds pressed is released in the end, whatever layer
\* switches and backlight-off periods lie between the down and the up.
C17_KeyUpFollowsKeyDown ==
  \A code \in AllCodes : (code \in keyboard) ~> (code \notin keyboard)

\* C18: whenever the loop reaches poll, needs_complete_redraw is false, no
\* button of the active layer is marked changed, and the canvas shows every
\* button of the active layer as its active flag has it; the part of the
\* canvas the redraw step changed is reported by a rectangle of that step,
\* the whole canvas or the button's own.
C18_RenderedAtPoll ==
  [][pc' = "poll"
       => /\ ~needs_complete_redraw'
          /\ \A i \in ButtonIdx :
               /\ ~layers'[active_layer'][i].changed
               /\ surface'[i] = Painted(layers'[active_layer'][i])
               /\ surface'[i] # surface[i]
                    => \E k \in 1..Len(clips') :
                         clips'[k] \in { FullClip(Width, Height),
                                         ButtonClip(NumButtons, i, Width, Height) }
    ]_vars

\* the loop is at poll with the secondary layer on the canvas, its button 0
\* shown active: a press and a layer switch before it have been rendered
C18_Witness ==
  /\ pc = "poll"
  /\ primary_layer # secondary_layer /\ active_layer = secondary_layer
  /\ layers[active_layer][0].active
  /\ surface[0] = [action |-> KeyNames[active_layer + 1][1], active |-> TRUE]
  /\ \E i \in ButtonIdx : layers[primary_layer][i].changed

\* over the whole row, x = W included, the column guess is at most N, and
\* where it is N the hit test against it fails at every height
ColumnInRange ==
  \A x \in 0..Width :
    LET btn == ColumnOf(x, Width, NumButtons) IN
    /\ btn \in 0..NumButtons
    /\ btn >= NumButtons
         => \A y \in 0..Height : ~button_hit(NumButtons, btn, Width, Height, x, y)

\* C19: the down handler never indexes a button outside 0..N-1: wherever the
\* column guess is N or more (only at x = W) the hit test fails, so the down
\* does nothing; every (layer, button) in the tracking map has layer 0 or 1
\* and button below N, and no handler ever panics on an index.
C19_IndexInRange ==
  /\ (pc # "panicked" /\ touches = << >>)
  /\ [][/\ ColumnInRange
        /\ pc' # "panicked"
        /\ \A s \in DOMAIN touches' :
             touches'[s][1] \in LayerIds /\ touches'[s][2] \in ButtonIdx
        /\ \A s \in Slots, p \in DownPositions :
             (TbDown(s, p) /\ ColumnOf(p[1], Width, NumButtons) \notin ButtonIdx)
               => NoPressEffect
       ]_vars

\* contacts are bound on both layers, and one more contact, whose down the
\* hit test rejected, is down
C19_Witness ==
  /\ \E s \in DOMAIN touches, t \in DOMAIN touches :
       touches[s][1] = 0 /\ touches[t][1] = 1
  /\ \E s \in DOMAIN live : live[s] = "miss"
  /\ pc = "events"

\* another contact's entry references the button of slot s's entry
SharesButton(s) ==
  \E t \in (DOMAIN touches) \ {s} : touches[t] = touches[s]

\* C20: the down of a second contact on a button that is active through a
\* first contact writes no key event; and when the last of the contacts that
\* share a button is lifted, the button is inactive afterwards and its key is
\* not held: as many key-ups as key-downs have been written for it.
C20_SharedButtonReleased ==
  [][\A s \in Slots :
       /\ \A p \in DownPositions :
            (TbDown(s, p) /\ DownOutcome("tb", p[1], p[2]) = "hit"
               /\ \E t \in (DOMAIN live) \ {s} :
                    /\ live[t] = "hit" /\ t \in DOMAIN touches
                    /\ touches[t] = << active_layer, ColumnOf(p[1], Width, NumButtons) >>
                    /\ Bound(t).active)
              => KeyEvents(written') = << >>
       /\ (s \in DOMAIN live /\ live[s] = "hit" /\ s \in DOMAIN touches
             /\ SharesButton(s)
             /\ (\A t \in (DOMAIN live) \ {s} :
                   t \in DOMAIN touches => touches[t] # touches[s])
             /\ TbUp(s))
            => /\ ~layers'[touches[s][1]][touches[s][2]].active
               /\ Bound(s).action \notin keyboard'
    ]_vars

====
